---------------------------- MODULE Spec2Model ----------------------------
(***************************************************************************)
(* Debate orchestration workflow of the Vue front end: DiscussionModule    *)
(* (frontend/features/settings/settings.js) with the parts of AuthModule   *)
(* (frontend/features/auth/auth.js) that touch the chat state.             *)
(*                                                                         *)
(* The browser event loop is modelled as one action per handler run: the   *)
(* synchronous part of a method up to its first await, the continuation    *)
(* of an await when the HTTP response arrives, and the setInterval         *)
(* callback.  Text contents are abstracted to a tag, question texts to     *)
(* their length and surrounding white space; of a debate resource the      *)
(* model keeps what the module reads (id, status, debate_rounds, summary); *)
(* typingText, a display string no handler reads, is left out.             *)
(***************************************************************************)
EXTENDS Integers, Sequences, FiniteSets, TLC

\* ------------------------------------------------------------------ bounds
MaxDebates  == 2   \* debate ids the remote service hands out
MaxInFlight == 2   \* HTTP requests pending at the same time
MaxMessages == 3   \* length of the timeline
MaxRound    == 1   \* highest round number in a fetched resource
MaxRoundsLen == 2  \* length of debate_rounds in a fetched resource
MaxPieces   == 3   \* pieces of text in the content of a message
MaxEffectRuns == 3 \* runs of the effect of VerifyEmail during one mount
MaxMounts   == 2   \* mounts of VerifyEmail
MaxChats    == 2   \* chats the remote service creates
MaxChatLen  == 2   \* messages the remote service stores for one chat
MaxLoads    == 2   \* GET of handleSelectChat pending at the same time

\* ------------------------------------------------------- program constants
MIN_QUESTION_LENGTH == 10
MAX_QUESTION_LENGTH == 1000

VARIABLES
    user,            \* AuthModule.data.user: "null", or the role 0 / 1 as "role0" / "role1"
    question,        \* data.question, the v-model of the input: [padded, body]
    currentDebate,   \* data.currentDebate
    messages,        \* data.messages, the timeline
    isProcessing,    \* data.isProcessing
    isTyping,        \* data.isTyping
    pollInterval,    \* data.pollInterval: 0 (null) or the timer handle
    debateGenerated, \* data.debateGenerated
    timers,          \* interval timers created by setInterval and not cleared
    submitPending,   \* number of POST /api/debate/submit awaiting their response
    pollPending,     \* debateId of each GET /api/debate/{id} awaiting its response, in issue order
    nextId,          \* remote service: next debate_id it assigns
    \* the view of a message (renderMarkdown)
    text,            \* message.displayedContent, as a sequence of pieces of text
    html,            \* what v-html shows for the message, as a sequence of nodes
    \* the page VerifyEmail
    token,           \* searchParams.get('token'): "null" or the token of the URL
    verifyStatus,    \* const [status, setStatus] = useState('loading')
    verifyMessage,   \* const [message, setMessage] = useState('')
    email,           \* useState('')
    hasVerified,     \* useRef(false).current
    mount,           \* which mount of VerifyEmail is on the page
    effectRuns,      \* runs of the effect during this mount
    issued,          \* GET /api/auth/verify-email issued during this mount
    verifyPending,   \* the mount of each GET awaiting its response, in issue order
    redirects,       \* setTimeout(navigate('/admin/dev')) armed and not fired
    page,            \* the route displayed: "verify-email" or "admin/dev"
    \* the page Chat (useChat, useChatPolling)
    chats,           \* useState([]): the ids of the chats listed
    currentChatId,   \* useState(null): 0 (null) or a chat id
    chatMessages,    \* const [messages, setMessages] = useState([]): [chat, role] each
    isSending,       \* useState(false)
    sendingChatId,   \* useState(null): 0 (null) or a chat id
    hasActiveRequest, \* useState(false)
    activeChatRequest, \* localStorage item 'activeChatRequest': 0 (absent) or a chat id
    store,           \* remote service: the roles of the messages of each chat
    created,         \* remote service: number of chats created
    sendOp,          \* where the running sendMessage stands, and its chatId
    checkOp,         \* where the running checkAuth effect stands, and its chatId
    pollOp,          \* where the running checkForMessages stands, and its chatIdToUse
    loading,         \* chat ids whose GET issued by handleSelectChat is pending
    selected         \* the chat the user selected last (0: none, or a new chat)

\* the state of DiscussionModule and AuthModule
discussionVars == <<user, question, currentDebate, messages, isProcessing, isTyping,
                    pollInterval, debateGenerated, timers, submitPending,
                    pollPending, nextId>>

markdownVars == <<text, html>>

verifyVars == <<token, verifyStatus, verifyMessage, email, hasVerified, mount, effectRuns,
                issued, verifyPending, redirects, page>>

chatVars == <<chats, currentChatId, chatMessages, isSending, sendingChatId,
              hasActiveRequest, activeChatRequest, store, created, sendOp,
              checkOp, pollOp, loading, selected>>

vars == <<discussionVars, markdownVars, verifyVars, chatVars>>

\* the state that the methods of DiscussionModule and AuthModule leave alone
notDiscussion == <<markdownVars, verifyVars, chatVars>>

notMarkdown == <<discussionVars, verifyVars, chatVars>>

notVerify == <<discussionVars, markdownVars, chatVars>>

notChat == <<discussionVars, markdownVars, verifyVars>>

\* ------------------------------------------------------------ value spaces
Positions == {"pour", "contre"}
Rounds    == [position : Positions, round : 1..MaxRound]

RECURSIVE SeqsUpTo(_, _)
SeqsUpTo(S, n) ==
    IF n = 0 THEN {<<>>}
    ELSE LET shorter == SeqsUpTo(S, n - 1)
         IN  shorter \cup {Append(s, x) : s \in {t \in shorter : Len(t) = n - 1}, x \in S}

Statuses == {"processing", "completed", "error", "unknown"}

\* currentDebate = null
NoDebate == [id |-> 0, status |-> "none", shape |-> "null"]

\* a plausible slip: the session is installed without its status
NewDebateNoStatus(debateId) == [id |-> debateId, status |-> "unknown", shape |-> "submit"]

\* { id: debateId, question: question, status: 'processing' }
NewDebate(debateId) ==
    [id |-> debateId, status |-> "processing", shape |-> "submit"]

\* response.data of GET /api/debate/{id}
RoundLists == SeqsUpTo(Rounds, MaxRoundsLen)

Resources(debateId) ==
    {[id |-> debateId, status |-> s, debate_rounds |-> r, summary |-> m] :
        s \in Statuses, r \in RoundLists, m \in BOOLEAN}

\* this.currentDebate = debate: the fields of the resource the module reads later
Stored(debate) == [id |-> debate.id, status |-> debate.status, shape |-> "fetch"]

\* what the user can type: body characters, padded with white space or not
QuestionInputs ==
    {[padded |-> FALSE, body |-> 0],
     [padded |-> TRUE,  body |-> 0],
     [padded |-> FALSE, body |-> MIN_QUESTION_LENGTH - 1],
     [padded |-> TRUE,  body |-> MIN_QUESTION_LENGTH],
     [padded |-> TRUE,  body |-> MAX_QUESTION_LENGTH],
     [padded |-> FALSE, body |-> MAX_QUESTION_LENGTH + 1]}

EmptyQuestion == [padded |-> FALSE, body |-> 0]

\* this.question.trim().length
TrimmedLength(q) == q.body

NoKey == <<>>

\* a plausible slip: the key lacks the round number
MessageKeyNoRound(round) == <<"round", round.position>>

\* `round_${round.position}_${round.round}`
MessageKey(round) == <<"round", round.position, round.round>>

Msg(type, content, key) == [type |-> type, content |-> content, messageKey |-> key]

UserMessage    == Msg("user", "question", NoKey)
SubmitErrorMessage == Msg("assistant", "submitError", NoKey)
ExportMessage  == Msg("export", "exportNotice", NoKey)
SummaryMessage == Msg("summary", "summary", NoKey)
WelcomeMessage == Msg("assistant", "WELCOME_MESSAGE", NoKey)
PendingMessage == Msg("assistant", "PENDING_MESSAGE", NoKey)
RoundMessage(round) == Msg(round.position, "argument", MessageKey(round))

\* ------------------------------------------------------------- pure helpers
\* a plausible slip: unshift instead of push
addMessageFront(msgs, message) == <<message>> \o msgs

addMessage(msgs, message) == Append(msgs, message)

hasMessageType(msgs, type) == \E i \in 1..Len(msgs) : msgs[i].type = type

\* a plausible slip: the stored key is compared with a key that lacks the round number
hasMessageNever(msgs, messageKey) ==
    \E i \in 1..Len(msgs) : msgs[i].messageKey = SubSeq(messageKey, 1, 2)

hasMessage(msgs, messageKey) == \E i \in 1..Len(msgs) : msgs[i].messageKey = messageKey

\* debate.debate_rounds.forEach(...)
RECURSIVE forEachRound(_, _, _)
forEachRound(msgs, rounds, i) ==
    IF i > Len(rounds) THEN msgs
    ELSE forEachRound(
            IF ~hasMessage(msgs, MessageKey(rounds[i]))
            THEN addMessage(msgs, RoundMessage(rounds[i]))
            ELSE msgs,
            rounds, i + 1)

\* the timeline after updateDebateDisplay(debate)
updateDebateDisplay(msgs, debate) ==
    LET withRounds == forEachRound(msgs, debate.debate_rounds, 1)
    IN  IF debate.summary /\ ~hasMessageType(withRounds, "summary")
        THEN addMessage(withRounds, SummaryMessage)
        ELSE withRounds

isInputDisabled == user = "role0" \/ debateGenerated

\* a plausible slip: only the welcome text is looked for, not the pending text
addWelcomeMessageOnlyWelcomeChecked(msgs, u) ==
    IF u = "null" THEN msgs
    ELSE IF \E i \in 1..Len(msgs) : msgs[i].content = "WELCOME_MESSAGE"
    THEN msgs
    ELSE IF u = "role0" THEN Append(msgs, PendingMessage)
    ELSE Append(msgs, WelcomeMessage)

\* AuthModule.addWelcomeMessage, on the timeline msgs for the user u
addWelcomeMessage(msgs, u) ==
    IF u = "null" THEN msgs
    ELSE IF \E i \in 1..Len(msgs) :
                msgs[i].content \in {"WELCOME_MESSAGE", "PENDING_MESSAGE"}
    THEN msgs
    ELSE IF u = "role0" THEN addMessage(msgs, PendingMessage)
    ELSE addMessage(msgs, WelcomeMessage)

\* clearInterval(this.pollInterval) of stopPolling, on the set of live timers
stopPolling(ts, handle) == IF handle # 0 THEN ts \ {handle} ELSE ts

RemoveAt(s, i) == SubSeq(s, 1, i - 1) \o SubSeq(s, i + 1, Len(s))

\* requests awaiting their response
InFlight == submitPending + Len(pollPending)

\* an asynchronous function that is running: the await it stands at and its chatId
Op(stage, chat) == [stage |-> stage, chat |-> chat]

\* -------------------------------------------------------------------- Init
Init ==
    /\ user = "null"
    /\ question = EmptyQuestion
    /\ currentDebate = NoDebate
    /\ messages = <<>>
    /\ isProcessing = FALSE
    /\ isTyping = FALSE
    /\ pollInterval = 0
    /\ debateGenerated = FALSE
    /\ timers = {}
    /\ submitPending = 0
    /\ pollPending = <<>>
    /\ nextId = 1
    /\ text = <<>>
    /\ html = <<>>
    /\ token = "null"
    /\ verifyStatus = "loading"
    /\ verifyMessage = ""
    /\ email = ""
    /\ hasVerified = FALSE
    /\ mount = 1
    /\ effectRuns = 0
    /\ issued = 0
    /\ verifyPending = <<>>
    /\ redirects = 0
    /\ page = "verify-email"
    /\ chats = {}
    /\ currentChatId = 0
    /\ chatMessages = <<>>
    /\ isSending = FALSE
    /\ sendingChatId = 0
    /\ hasActiveRequest = FALSE
    /\ activeChatRequest = 0
    /\ store = [c \in 1..MaxChats |-> <<>>]
    /\ created = 0
    /\ sendOp = Op("idle", 0)
    /\ checkOp = Op("me", 0)
    /\ pollOp = Op("idle", 0)
    /\ loading = {}
    /\ selected = 0

\* ------------------------------------------------------- DiscussionModule
\* the input's v-model; the input is disabled while isInputDisabled
TypeQuestion(q) ==
    /\ ~isInputDisabled
    /\ q # question
    /\ question' = q
    /\ UNCHANGED <<user, currentDebate, messages, isProcessing, isTyping,
                   pollInterval, debateGenerated, timers, submitPending, pollPending,
                   nextId>>
    /\ UNCHANGED notDiscussion

\* a plausible slip: the upper length check is missing
SubmitRejectsNoMax(q, processing) ==
    \/ TrimmedLength(q) = 0
    \/ processing
    \/ TrimmedLength(q) < MIN_QUESTION_LENGTH

\* the early returns of submitQuestion: empty after trim, busy, too short, too long
SubmitRejects(q, processing) ==
    \/ TrimmedLength(q) = 0
    \/ processing
    \/ TrimmedLength(q) < MIN_QUESTION_LENGTH
    \/ TrimmedLength(q) > MAX_QUESTION_LENGTH

\* submitQuestion up to its await of axios.post
submitQuestion ==
    IF SubmitRejects(question, isProcessing)
    THEN UNCHANGED <<user, question, currentDebate, messages, isProcessing, isTyping,
                     pollInterval, debateGenerated, timers, submitPending,
                     pollPending, nextId>>
    ELSE /\ Len(messages) < MaxMessages
         /\ InFlight < MaxInFlight
         /\ messages' = addMessage(messages, UserMessage)
         /\ question' = EmptyQuestion
         /\ isProcessing' = TRUE
         /\ isTyping' = TRUE
         /\ debateGenerated' = TRUE
         /\ submitPending' = submitPending + 1
         /\ UNCHANGED <<user, currentDebate, pollInterval, timers, pollPending, nextId>>

SubmitQuestion ==
    /\ submitQuestion
    /\ UNCHANGED notDiscussion

HandleEnterKey(shiftKey) ==
    /\ IF shiftKey \/ ~(TrimmedLength(question) # 0 /\ ~isProcessing)
       THEN UNCHANGED <<user, question, currentDebate, messages, isProcessing, isTyping,
                        pollInterval, debateGenerated, timers,
                        submitPending, pollPending, nextId>>
       ELSE submitQuestion
    /\ UNCHANGED notDiscussion

\* the POST resolves: currentDebate is set and startPolling(debateId) runs
SubmitResponse ==
    /\ submitPending > 0
    /\ nextId <= MaxDebates
    /\ submitPending' = submitPending - 1
    /\ currentDebate' = NewDebate(nextId)
    /\ pollInterval' = nextId
    /\ timers' = timers \cup {nextId}
    /\ nextId' = nextId + 1
    /\ UNCHANGED <<user, question, messages, isProcessing, isTyping,
                   debateGenerated, pollPending>>
    /\ UNCHANGED notDiscussion

\* the catch block of submitQuestion, on the timeline msgs
submitCatch(msgs) ==
    /\ Len(msgs) < MaxMessages
    /\ messages' = addMessage(msgs, SubmitErrorMessage)
    /\ isProcessing' = FALSE
    /\ debateGenerated' = FALSE

\* the POST rejects (network error, or a status other than 2xx and 401)
SubmitFail ==
    /\ submitPending > 0
    /\ submitPending' = submitPending - 1
    /\ submitCatch(messages)
    /\ UNCHANGED <<user, question, currentDebate, isTyping, pollInterval,
                   timers, pollPending, nextId>>
    /\ UNCHANGED notDiscussion

\* the setInterval callback starts: axios.get is issued
Tick(t) ==
    /\ t \in timers
    /\ InFlight < MaxInFlight
    /\ pollPending' = Append(pollPending, t)
    /\ UNCHANGED <<user, question, currentDebate, messages, isProcessing, isTyping,
                   pollInterval, debateGenerated, timers, submitPending,
                   nextId>>
    /\ UNCHANGED notDiscussion

\* a plausible slip: the notice is appended for every terminal status
pollTryNoticeOnError(msgs, debate) ==
    LET shown == updateDebateDisplay(msgs, debate)
    IN  IF debate.status \in {"completed", "error"}
        THEN addMessage(shown, ExportMessage) ELSE shown

\* the timeline after the try block of the interval callback has handled debate
pollTry(msgs, debate) ==
    LET shown == updateDebateDisplay(msgs, debate)
    IN  IF debate.status = "completed" THEN addMessage(shown, ExportMessage) ELSE shown

\* a plausible slip: every status but processing ends the polling
IsTerminalNotProcessing(status) == status # "processing"

IsTerminal(status) == status = "completed" \/ status = "error"

\* the interval callback from the answer of its axios.get on: the try block
pollResponse(i, debate) ==
    /\ i \in 1..Len(pollPending)
    /\ pollPending' = RemoveAt(pollPending, i)
    /\ currentDebate' = Stored(debate)
    /\ messages' = pollTry(messages, debate)
    /\ IF IsTerminal(debate.status)
       THEN /\ timers' = stopPolling(timers, pollInterval)
            /\ pollInterval' = 0
            /\ isProcessing' = FALSE
            /\ isTyping' = FALSE
       ELSE UNCHANGED <<timers, pollInterval, isProcessing, isTyping>>
    /\ UNCHANGED <<user, question, debateGenerated, submitPending, nextId>>
    /\ UNCHANGED notDiscussion

\* the GET of pollPending[i] resolves with the resource debate
PollResponse(i, debate) ==
    /\ Len(pollTry(messages, debate)) <= MaxMessages
    /\ pollResponse(i, debate)

\* the GET of pollPending[i] rejects (network error, or a status other than 2xx and 401)
PollFail(i) ==
    /\ i \in 1..Len(pollPending)
    /\ pollPending' = RemoveAt(pollPending, i)
    /\ timers' = stopPolling(timers, pollInterval)
    /\ pollInterval' = 0
    /\ isProcessing' = FALSE
    /\ isTyping' = FALSE
    /\ UNCHANGED <<user, question, currentDebate, messages, debateGenerated,
                   submitPending, nextId>>
    /\ UNCHANGED notDiscussion

\* exportToPDF on the session debate: the warning of its guard, or the GET of
\* /api/debate/{debate_id}/export-pdf.  currentDebate carries the fields the
\* code gave it: {id, question, status} from submitQuestion, the fields of the
\* fetched resource from updateDebateDisplay.
exportToPDF(debate) ==
    IF debate = NoDebate \/ "debate_id" \notin DOMAIN debate
    THEN [request |-> "none", alert |-> "Aucun débat"]
    ELSE [request |-> "export-pdf", alert |-> "none"]

\* resetChat for the user u, all but the requests in flight
resetChat(u) ==
    /\ messages' = addWelcomeMessage(<<>>, u)
    /\ currentDebate' = NoDebate
    /\ question' = EmptyQuestion
    /\ isProcessing' = FALSE
    /\ isTyping' = FALSE
    /\ debateGenerated' = FALSE
    /\ timers' = stopPolling(timers, pollInterval)
    /\ pollInterval' = 0

\* the "Nouveau" action
ResetChat ==
    /\ resetChat(user)
    /\ UNCHANGED pollPending
    /\ UNCHANGED <<user, submitPending, nextId>>
    /\ UNCHANGED notDiscussion

\* ------------------------------------------------------------- AuthModule
\* login() resolves: response.data.user is stored and addWelcomeMessage runs
LoginResponse(role) ==
    /\ user = "null"
    /\ user' = role
    /\ Len(messages) < MaxMessages
    /\ messages' = addWelcomeMessage(messages, role)
    /\ UNCHANGED <<question, currentDebate, isProcessing, isTyping,
                   pollInterval, debateGenerated, timers, submitPending, pollPending,
                   nextId>>
    /\ UNCHANGED notDiscussion

\* logout(): the user is dropped and resetChat runs
Logout ==
    /\ user # "null"
    /\ user' = "null"
    /\ resetChat("null")
    /\ UNCHANGED pollPending
    /\ UNCHANGED <<submitPending, nextId>>
    /\ UNCHANGED notDiscussion

\* signup() resolves: response.data.user is stored and addWelcomeMessage runs
SignupResponse(role) ==
    /\ Len(addWelcomeMessage(messages, role)) <= MaxMessages
    /\ user' = role
    /\ messages' = addWelcomeMessage(messages, role)
    /\ UNCHANGED <<question, currentDebate, isProcessing, isTyping,
                   pollInterval, debateGenerated, timers, submitPending, pollPending,
                   nextId>>
    /\ UNCHANGED notDiscussion

\* checkAuth(): GET /api/auth/me resolves, the user is stored and
\* addWelcomeMessage runs
CheckAuthResponse(role) ==
    /\ Len(addWelcomeMessage(messages, role)) <= MaxMessages
    /\ user' = role
    /\ messages' = addWelcomeMessage(messages, role)
    /\ UNCHANGED <<question, currentDebate, isProcessing, isTyping,
                   pollInterval, debateGenerated, timers, submitPending, pollPending,
                   nextId>>
    /\ UNCHANGED notDiscussion

\* checkAuth(): GET /api/auth/me rejects with a status other than 401 and the
\* catch block runs logout()
CheckAuthFail ==
    /\ user' = "null"
    /\ resetChat("null")
    /\ UNCHANGED pollPending
    /\ UNCHANGED <<submitPending, nextId>>
    /\ UNCHANGED notDiscussion

\* the POST is answered 401: the response interceptor runs logout(), then the
\* rejection reaches the catch block of submitQuestion
SubmitFail401 ==
    /\ submitPending > 0
    /\ submitPending' = submitPending - 1
    /\ user' = "null"
    /\ currentDebate' = NoDebate
    /\ question' = EmptyQuestion
    /\ isTyping' = FALSE
    /\ timers' = stopPolling(timers, pollInterval)
    /\ pollInterval' = 0
    /\ submitCatch(addWelcomeMessage(<<>>, "null"))
    /\ UNCHANGED pollPending
    /\ UNCHANGED nextId
    /\ UNCHANGED notDiscussion

\* the GET of pollPending[i] is answered 401: the response interceptor runs
\* logout(), then the rejection reaches the catch block of the interval callback
PollFail401(i) ==
    /\ i \in 1..Len(pollPending)
    /\ user' = "null"
    /\ resetChat("null")
    /\ pollPending' = RemoveAt(pollPending, i)
    /\ UNCHANGED <<submitPending, nextId>>
    /\ UNCHANGED notDiscussion

\* ---------------------------------------------------------- renderMarkdown
\* The content of a message is a sequence of pieces: plain words, **words**,
\* <script>alert(1)</script>, <b onclick="...">words</b>, <a href="...">words</a>.
Pieces == {"plain", "bold", "script", "onclick", "link"}

Contents == SeqsUpTo(Pieces, MaxPieces)

\* a plausible slip: script is on the allowlist
ALLOWED_TAGS_WithScript ==
    {"p", "br", "strong", "em", "b", "i", "u", "code", "pre", "blockquote",
     "ul", "ol", "li", "h1", "h2", "h3", "h4", "h5", "h6", "script"}

\* AppConfig.DOMPURIFY_CONFIG
ALLOWED_TAGS ==
    {"p", "br", "strong", "em", "b", "i", "u", "code", "pre", "blockquote",
     "ul", "ol", "li", "h1", "h2", "h3", "h4", "h5", "h6"}

ALLOWED_ATTR == {}

KEEP_CONTENT == TRUE

\* the elements whose content DOMPurify drops with them even under KEEP_CONTENT
\* (those of its default list that a content of Pieces can hold)
FORBID_CONTENTS == {"script", "style"}

\* a node of the html: the tag ("#text" for a text node), its attributes and,
\* as its words, the place of the piece it stems from
Node(tag, attrs, k) == [tag |-> tag, attrs |-> attrs, words |-> k]

\* marked.parse: markdown becomes elements, inline html is passed through
parsePiece(piece, k) ==
    CASE piece = "plain"   -> Node("#text", {}, k)
      [] piece = "bold"    -> Node("strong", {}, k)
      [] piece = "script"  -> Node("script", {}, k)
      [] piece = "onclick" -> Node("b", {"onclick"}, k)
      [] piece = "link"    -> Node("a", {"href"}, k)

parse(t) == [k \in 1..Len(t) |-> parsePiece(t[k], k)]

\* DOMPurify.sanitize(html, config) on one node: the nodes that replace it
sanitizeNode(n) ==
    IF n.tag = "#text" THEN <<n>>
    ELSE IF n.tag \in ALLOWED_TAGS THEN <<Node(n.tag, n.attrs \cap ALLOWED_ATTR, n.words)>>
    ELSE IF KEEP_CONTENT /\ n.tag \notin FORBID_CONTENTS THEN <<Node("#text", {}, n.words)>>
    ELSE <<>>

RECURSIVE sanitize(_)
sanitize(nodes) ==
    IF nodes = <<>> THEN <<>>
    ELSE sanitizeNode(Head(nodes)) \o sanitize(Tail(nodes))

renderMarkdown(t) == IF t = <<>> THEN <<>> ELSE sanitize(parse(t))

\* addMessage: the content of the message becomes its displayedContent
ShowMessage(t) ==
    /\ t # text
    /\ text' = t
    /\ UNCHANGED html
    /\ UNCHANGED notMarkdown

\* the view renders the message: v-html of renderMarkdown(displayedContent)
Render ==
    /\ html' = renderMarkdown(text)
    /\ UNCHANGED text
    /\ UNCHANGED notMarkdown

NextMarkdown ==
    \/ \E t \in Contents : ShowMessage(t)
    \/ Render

SpecMarkdown == Init /\ [][NextMarkdown]_vars

\* ------------------------------------------------------------- VerifyEmail
Tokens == {"null", "tokenA", "tokenB"}

Emails == {"a@example.org", "b@example.org"}

\* err.response?.data?.detail of a rejected GET ("null": no response or no detail)
Details == {"null", "Email déjà vérifié", "Token invalide ou expiré"}

\* the URL of the page is opened with another query string
ChangeToken(t) ==
    /\ page = "verify-email"
    /\ t # token
    /\ token' = t
    /\ UNCHANGED <<verifyStatus, verifyMessage, email, hasVerified, mount, effectRuns,
                   issued, verifyPending, redirects, page>>
    /\ UNCHANGED notVerify

\* a plausible slip: the effect without the hasVerified guard
VerifyEmailEffectUnguarded ==
    /\ page = "verify-email"
    /\ effectRuns < MaxEffectRuns
    /\ effectRuns' = effectRuns + 1
    /\ hasVerified' = TRUE
    /\ IF token = "null"
         THEN /\ verifyStatus' = "error"
              /\ verifyMessage' = "Token de vérification manquant"
              /\ UNCHANGED <<issued, verifyPending>>
         ELSE /\ issued' = issued + 1
              /\ verifyPending' = Append(verifyPending, mount)
              /\ UNCHANGED <<verifyStatus, verifyMessage>>
    /\ UNCHANGED <<token, email, mount, redirects, page>>
    /\ UNCHANGED notVerify

\* useEffect(() => { verifyEmail() }, [searchParams, navigate]): one run of the
\* effect, up to the await (after mount, again under StrictMode, again when a
\* dependency changes)
VerifyEmailEffect ==
    /\ page = "verify-email"
    /\ effectRuns < MaxEffectRuns
    /\ effectRuns' = effectRuns + 1
    /\ IF hasVerified
         THEN UNCHANGED <<hasVerified, verifyStatus, verifyMessage, issued, verifyPending>>
         ELSE /\ hasVerified' = TRUE
              /\ IF token = "null"
                   THEN /\ verifyStatus' = "error"
                        /\ verifyMessage' = "Token de vérification manquant"
                        /\ UNCHANGED <<issued, verifyPending>>
                   ELSE /\ issued' = issued + 1
                        /\ verifyPending' = Append(verifyPending, mount)
                        /\ UNCHANGED <<verifyStatus, verifyMessage>>
    /\ UNCHANGED <<token, email, mount, redirects, page>>
    /\ UNCHANGED notVerify

\* whether the component that issued the oldest pending GET is still mounted
\* (a setState of an unmounted component changes nothing)
Mounted == Head(verifyPending) = mount /\ page = "verify-email"

\* the GET resolves: the lines after the await
VerifyEmailResponse(e) ==
    /\ verifyPending # <<>>
    /\ verifyPending' = Tail(verifyPending)
    /\ IF Mounted
         THEN /\ verifyStatus' = "success"
              /\ email' = e
              /\ verifyMessage' = "Votre email a été vérifié avec succès !"
         ELSE UNCHANGED <<verifyStatus, email, verifyMessage>>
    /\ redirects' = redirects + 1
    /\ UNCHANGED <<token, hasVerified, mount, effectRuns, issued, page>>
    /\ UNCHANGED notVerify

\* the GET is rejected: the catch block
VerifyEmailFail(detail) ==
    /\ verifyPending # <<>>
    /\ verifyPending' = Tail(verifyPending)
    /\ LET errorDetail == IF detail = "null"
                            THEN "Une erreur est survenue lors de la vérification"
                            ELSE detail
       IN IF errorDetail = "Email déjà vérifié"
            THEN /\ IF Mounted
                      THEN /\ verifyStatus' = "success"
                           /\ verifyMessage' = "Votre email est déjà vérifié !"
                      ELSE UNCHANGED <<verifyStatus, verifyMessage>>
                 /\ redirects' = redirects + 1
            ELSE /\ IF Mounted
                      THEN /\ verifyStatus' = "error"
                           /\ verifyMessage' = errorDetail
                      ELSE UNCHANGED <<verifyStatus, verifyMessage>>
                 /\ UNCHANGED redirects
    /\ UNCHANGED <<token, email, hasVerified, mount, effectRuns, issued, page>>
    /\ UNCHANGED notVerify

\* the 3 s timer fires: navigate('/admin/dev')
Redirect ==
    /\ redirects > 0
    /\ redirects' = redirects - 1
    /\ page' = "admin/dev"
    /\ UNCHANGED <<token, verifyStatus, verifyMessage, email, hasVerified, mount, effectRuns,
                   issued, verifyPending>>
    /\ UNCHANGED notVerify

\* the link of the verification mail is opened again: a new VerifyEmail is
\* mounted, with its own state and its own ref
Remount(t) ==
    /\ mount < MaxMounts
    /\ mount' = mount + 1
    /\ page' = "verify-email"
    /\ token' = t
    /\ verifyStatus' = "loading"
    /\ verifyMessage' = ""
    /\ email' = ""
    /\ hasVerified' = FALSE
    /\ effectRuns' = 0
    /\ issued' = 0
    /\ UNCHANGED <<verifyPending, redirects>>
    /\ UNCHANGED notVerify

NextVerify ==
    \/ \E t \in Tokens : ChangeToken(t)
    \/ VerifyEmailEffect
    \/ \E e \in Emails : VerifyEmailResponse(e)
    \/ \E detail \in Details : VerifyEmailFail(detail)
    \/ Redirect
    \/ \E t \in Tokens : Remount(t)

SpecVerify == Init /\ [][NextVerify]_vars

\* ------------------------------------------------- Chat (useChat, polling)
\* A message of the remote service is known by its role; a message of the
\* list displayed is known by its role and the chat it was loaded from or
\* written for.
Tagged(c, data) == [k \in 1..Len(data) |-> [chat |-> c, role |-> data[k]]]

lastMessage(data) == data[Len(data)]

\* GET /api/chat/list has resolved: setChats(response.data.chats); a failure
\* is caught inside loadChats and changes nothing
loadChats(ok) == chats' = IF ok THEN 1..created ELSE chats

\* loadMessages(chatId) after its GET has resolved with data
loadMessages(chatId, data) ==
    /\ chatMessages' = Tagged(chatId, data)
    /\ currentChatId' = chatId
    /\ IF activeChatRequest = chatId /\ data # <<>> /\ lastMessage(data) = "assistant"
         THEN activeChatRequest' = 0 /\ hasActiveRequest' = FALSE
         ELSE UNCHANGED <<activeChatRequest, hasActiveRequest>>

\* the page is displayed once the checkAuth effect has ended (loading false)
Displayed == checkOp.stage = "idle"

\* sendMessage from setSendingChatId on, up to the POST /api/chat/message
sendTo(chatId) ==
    /\ Len(chatMessages) <= MaxChatLen
    /\ sendingChatId' = chatId
    /\ hasActiveRequest' = TRUE
    /\ activeChatRequest' = chatId
    /\ chatMessages' = Append(chatMessages, [chat |-> chatId, role |-> "user"])
    /\ sendOp' = Op("post", chatId)

\* handleSendMessage and sendMessage up to its first await
HandleSendMessage ==
    /\ Displayed
    /\ ~isSending
    /\ sendOp.stage = "idle"
    /\ isSending' = TRUE
    /\ IF currentChatId = 0
         THEN /\ created < MaxChats
              /\ sendOp' = Op("create", 0)
              /\ UNCHANGED <<sendingChatId, hasActiveRequest, activeChatRequest,
                             chatMessages>>
         ELSE /\ Len(store[currentChatId]) + 2 <= MaxChatLen
              /\ sendTo(currentChatId)
    /\ UNCHANGED <<chats, currentChatId, store, created, checkOp, pollOp, loading,
                   selected>>
    /\ UNCHANGED notChat

\* createNewChat: POST /api/chat/new has resolved; loadChats is awaited
CreateResponse ==
    /\ sendOp.stage = "create"
    /\ created' = created + 1
    /\ sendOp' = Op("createList", created + 1)
    /\ UNCHANGED <<chats, currentChatId, chatMessages, isSending, sendingChatId,
                   hasActiveRequest, activeChatRequest, store, checkOp, pollOp,
                   loading, selected>>
    /\ UNCHANGED notChat

\* createNewChat returns null: sendMessage gives up
CreateFail ==
    /\ sendOp.stage = "create"
    /\ isSending' = FALSE
    /\ sendingChatId' = 0
    /\ sendOp' = Op("idle", 0)
    /\ UNCHANGED <<chats, currentChatId, chatMessages, hasActiveRequest,
                   activeChatRequest, store, created, checkOp, pollOp, loading,
                   selected>>
    /\ UNCHANGED notChat

\* createNewChat returns the new id: sendMessage goes on up to its POST
CreateListResponse(ok) ==
    /\ sendOp.stage = "createList"
    /\ loadChats(ok)
    /\ currentChatId' = sendOp.chat
    /\ sendTo(sendOp.chat)
    /\ UNCHANGED <<isSending, store, created, checkOp, pollOp, loading, selected>>
    /\ UNCHANGED notChat

\* the remote service receives the POST /api/chat/message and stores the message
ServerReceives ==
    /\ sendOp.stage = "post"
    /\ Len(store[sendOp.chat]) < MaxChatLen
    /\ store' = [store EXCEPT ![sendOp.chat] = Append(@, "user")]
    /\ sendOp' = Op("posted", sendOp.chat)
    /\ UNCHANGED <<chats, currentChatId, chatMessages, isSending, sendingChatId,
                   hasActiveRequest, activeChatRequest, created, checkOp, pollOp,
                   loading, selected>>
    /\ UNCHANGED notChat

\* the remote service stores the answer to the last message of a chat
ServerReplies(c) ==
    /\ store[c] # <<>>
    /\ lastMessage(store[c]) = "user"
    /\ store' = [store EXCEPT ![c] = Append(@, "assistant")]
    /\ UNCHANGED <<chats, currentChatId, chatMessages, isSending, sendingChatId,
                   hasActiveRequest, activeChatRequest, created, sendOp, checkOp,
                   pollOp, loading, selected>>
    /\ UNCHANGED notChat

\* the POST has resolved: sendMessage awaits loadMessages(chatId)
PostResponse ==
    /\ sendOp.stage = "posted"
    /\ sendOp' = Op("load", sendOp.chat)
    /\ UNCHANGED <<chats, currentChatId, chatMessages, isSending, sendingChatId,
                   hasActiveRequest, activeChatRequest, store, created, checkOp,
                   pollOp, loading, selected>>
    /\ UNCHANGED notChat

\* the POST is rejected: catch and finally of sendMessage
PostFail ==
    /\ sendOp.stage \in {"post", "posted"}
    /\ activeChatRequest' = 0
    /\ hasActiveRequest' = FALSE
    /\ isSending' = FALSE
    /\ sendingChatId' = 0
    /\ sendOp' = Op("idle", 0)
    /\ UNCHANGED <<chats, currentChatId, chatMessages, store, created, checkOp,
                   pollOp, loading, selected>>
    /\ UNCHANGED notChat

\* the loadMessages of sendMessage has resolved; loadChats is awaited
SendLoadResponse ==
    /\ sendOp.stage = "load"
    /\ loadMessages(sendOp.chat, store[sendOp.chat])
    /\ sendOp' = Op("list", sendOp.chat)
    /\ UNCHANGED <<chats, isSending, sendingChatId, store, created, checkOp,
                   pollOp, loading, selected>>
    /\ UNCHANGED notChat

\* the GET of that loadMessages is rejected: it returns []
SendLoadFail ==
    /\ sendOp.stage = "load"
    /\ sendOp' = Op("list", sendOp.chat)
    /\ UNCHANGED <<chats, currentChatId, chatMessages, isSending, sendingChatId,
                   hasActiveRequest, activeChatRequest, store, created, checkOp,
                   pollOp, loading, selected>>
    /\ UNCHANGED notChat

\* the loadChats of sendMessage has ended: the end of try, and finally
SendListResponse(ok) ==
    /\ sendOp.stage = "list"
    /\ loadChats(ok)
    /\ activeChatRequest' = 0
    /\ hasActiveRequest' = FALSE
    /\ isSending' = FALSE
    /\ sendingChatId' = 0
    /\ sendOp' = Op("idle", 0)
    /\ UNCHANGED <<currentChatId, chatMessages, store, created, checkOp, pollOp,
                   loading, selected>>
    /\ UNCHANGED notChat

\* handleSelectChat(chatId): loadMessages(chatId) up to its await
HandleSelectChat(chatId) ==
    /\ Displayed
    /\ chatId \in chats
    /\ chatId \notin loading
    /\ Cardinality(loading) < MaxLoads
    /\ loading' = loading \cup {chatId}
    /\ selected' = chatId
    /\ UNCHANGED <<chats, currentChatId, chatMessages, isSending, sendingChatId,
                   hasActiveRequest, activeChatRequest, store, created, sendOp,
                   checkOp, pollOp>>
    /\ UNCHANGED notChat

\* the GET of a selected chat has resolved
LoadMessagesResponse(chatId) ==
    /\ chatId \in loading
    /\ loadMessages(chatId, store[chatId])
    /\ loading' = loading \ {chatId}
    /\ UNCHANGED <<chats, isSending, sendingChatId, store, created, sendOp,
                   checkOp, pollOp, selected>>
    /\ UNCHANGED notChat

\* the GET of a selected chat is rejected
LoadMessagesFail(chatId) ==
    /\ chatId \in loading
    /\ loading' = loading \ {chatId}
    /\ UNCHANGED <<chats, currentChatId, chatMessages, isSending, sendingChatId,
                   hasActiveRequest, activeChatRequest, store, created, sendOp,
                   checkOp, pollOp, selected>>
    /\ UNCHANGED notChat

\* handleStartNewChat: the button is disabled while hasActiveRequest || isSending
HandleStartNewChat ==
    /\ Displayed
    /\ ~(hasActiveRequest \/ isSending)
    /\ currentChatId' = 0
    /\ chatMessages' = <<>>
    /\ selected' = 0
    /\ UNCHANGED <<chats, isSending, sendingChatId, hasActiveRequest,
                   activeChatRequest, store, created, sendOp, checkOp, pollOp,
                   loading>>
    /\ UNCHANGED notChat

\* useChatPolling: const chatIdToUse = sendingChatId || currentChatId
chatIdToUse == IF sendingChatId # 0 THEN sendingChatId ELSE currentChatId

\* the interval of useChatPolling is armed
Polling == hasActiveRequest /\ chatIdToUse # 0

\* the interval fires: checkForMessages up to its await
ChatPollTick ==
    /\ Polling
    /\ pollOp.stage = "idle"
    /\ pollOp' = Op("get", chatIdToUse)
    /\ UNCHANGED <<chats, currentChatId, chatMessages, isSending, sendingChatId,
                   hasActiveRequest, activeChatRequest, store, created, sendOp,
                   checkOp, loading, selected>>
    /\ UNCHANGED notChat

\* the GET of checkForMessages has resolved
ChatPollResponse ==
    /\ pollOp.stage = "get"
    /\ LET messagesData == store[pollOp.chat]
       IN pollOp' = IF messagesData # <<>> /\ lastMessage(messagesData) = "assistant"
                      THEN Op("load", pollOp.chat)
                      ELSE Op("idle", 0)
    /\ UNCHANGED <<chats, currentChatId, chatMessages, isSending, sendingChatId,
                   hasActiveRequest, activeChatRequest, store, created, sendOp,
                   checkOp, loading, selected>>
    /\ UNCHANGED notChat

\* the GET of checkForMessages is rejected
ChatPollFail ==
    /\ pollOp.stage = "get"
    /\ pollOp' = Op("idle", 0)
    /\ UNCHANGED <<chats, currentChatId, chatMessages, isSending, sendingChatId,
                   hasActiveRequest, activeChatRequest, store, created, sendOp,
                   checkOp, loading, selected>>
    /\ UNCHANGED notChat

\* the loadMessages of checkForMessages has ended (ok: its GET resolved), then
\* handleMessageReceived up to its await of loadChats
ChatPollLoadResponse(ok) ==
    /\ pollOp.stage = "load"
    /\ IF ok
         THEN /\ chatMessages' = Tagged(pollOp.chat, store[pollOp.chat])
              /\ currentChatId' = pollOp.chat
         ELSE UNCHANGED <<chatMessages, currentChatId>>
    /\ activeChatRequest' = 0
    /\ hasActiveRequest' = FALSE
    /\ isSending' = FALSE
    /\ sendingChatId' = 0
    /\ pollOp' = Op("list", 0)
    /\ UNCHANGED <<chats, store, created, sendOp, checkOp, loading, selected>>
    /\ UNCHANGED notChat

\* the loadChats of handleMessageReceived has ended
ChatPollListResponse(ok) ==
    /\ pollOp.stage = "list"
    /\ loadChats(ok)
    /\ pollOp' = Op("idle", 0)
    /\ UNCHANGED <<currentChatId, chatMessages, isSending, sendingChatId,
                   hasActiveRequest, activeChatRequest, store, created, sendOp,
                   checkOp, loading, selected>>
    /\ UNCHANGED notChat

\* the page is loaded again: the state of useChat is new, what was awaited is
\* gone, localStorage and the remote service stay; the checkAuth effect starts
\* (the session is valid: jwt_token is present and GET /api/auth/me resolves)
Reload ==
    /\ chats' = {}
    /\ currentChatId' = 0
    /\ chatMessages' = <<>>
    /\ isSending' = FALSE
    /\ sendingChatId' = 0
    /\ hasActiveRequest' = FALSE
    /\ sendOp' = Op("idle", 0)
    /\ checkOp' = Op("me", 0)
    /\ pollOp' = Op("idle", 0)
    /\ loading' = {}
    /\ selected' = 0
    /\ UNCHANGED <<activeChatRequest, store, created>>
    /\ UNCHANGED notChat

\* checkAuth: GET /api/auth/me has resolved; loadChats is awaited
MeResponse ==
    /\ checkOp.stage = "me"
    /\ checkOp' = Op("list", 0)
    /\ UNCHANGED <<chats, currentChatId, chatMessages, isSending, sendingChatId,
                   hasActiveRequest, activeChatRequest, store, created, sendOp,
                   pollOp, loading, selected>>
    /\ UNCHANGED notChat

\* checkAuth: loadChats has ended; checkActiveRequest starts if the marker is set
CheckListResponse(ok) ==
    /\ checkOp.stage = "list"
    /\ loadChats(ok)
    /\ checkOp' = IF activeChatRequest # 0
                    THEN Op("check", activeChatRequest)
                    ELSE Op("idle", 0)
    /\ UNCHANGED <<currentChatId, chatMessages, isSending, sendingChatId,
                   hasActiveRequest, activeChatRequest, store, created, sendOp,
                   pollOp, loading, selected>>
    /\ UNCHANGED notChat

\* checkActiveRequest: its GET has resolved
CheckActiveRequestResponse ==
    /\ checkOp.stage = "check"
    /\ LET chatId == checkOp.chat
           messagesData == store[chatId]
       IN IF messagesData # <<>>
            THEN IF lastMessage(messagesData) = "assistant"
                   THEN /\ activeChatRequest' = 0
                        /\ hasActiveRequest' = FALSE
                        /\ isSending' = FALSE
                        /\ sendingChatId' = 0
                        /\ checkOp' = Op("idle", 0)
                        /\ UNCHANGED currentChatId
                   ELSE /\ hasActiveRequest' = TRUE
                        /\ isSending' = TRUE
                        /\ sendingChatId' = chatId
                        /\ currentChatId' = chatId
                        /\ checkOp' = Op("load", chatId)
                        /\ UNCHANGED activeChatRequest
            ELSE /\ checkOp' = Op("idle", 0)
                 /\ UNCHANGED <<activeChatRequest, hasActiveRequest, isSending,
                                sendingChatId, currentChatId>>
    /\ UNCHANGED <<chats, chatMessages, store, created, sendOp, pollOp, loading,
                   selected>>
    /\ UNCHANGED notChat

\* checkActiveRequest: its GET is rejected
CheckActiveRequestFail ==
    /\ checkOp.stage = "check"
    /\ activeChatRequest' = 0
    /\ hasActiveRequest' = FALSE
    /\ isSending' = FALSE
    /\ sendingChatId' = 0
    /\ checkOp' = Op("idle", 0)
    /\ UNCHANGED <<chats, currentChatId, chatMessages, store, created, sendOp,
                   pollOp, loading, selected>>
    /\ UNCHANGED notChat

\* checkActiveRequest: its loadMessages has resolved
CheckLoadResponse ==
    /\ checkOp.stage = "load"
    /\ loadMessages(checkOp.chat, store[checkOp.chat])
    /\ checkOp' = Op("idle", 0)
    /\ UNCHANGED <<chats, isSending, sendingChatId, store, created, sendOp,
                   pollOp, loading, selected>>
    /\ UNCHANGED notChat

\* checkActiveRequest: the GET of its loadMessages is rejected
CheckLoadFail ==
    /\ checkOp.stage = "load"
    /\ checkOp' = Op("idle", 0)
    /\ UNCHANGED <<chats, currentChatId, chatMessages, isSending, sendingChatId,
                   hasActiveRequest, activeChatRequest, store, created, sendOp,
                   pollOp, loading, selected>>
    /\ UNCHANGED notChat

NextChat ==
    \/ HandleSendMessage
    \/ CreateResponse
    \/ CreateFail
    \/ \E ok \in BOOLEAN : CreateListResponse(ok)
    \/ ServerReceives
    \/ \E c \in 1..MaxChats : ServerReplies(c)
    \/ PostResponse
    \/ PostFail
    \/ SendLoadResponse
    \/ SendLoadFail
    \/ \E ok \in BOOLEAN : SendListResponse(ok)
    \/ \E chatId \in 1..MaxChats : HandleSelectChat(chatId)
    \/ \E chatId \in 1..MaxChats : LoadMessagesResponse(chatId)
    \/ \E chatId \in 1..MaxChats : LoadMessagesFail(chatId)
    \/ HandleStartNewChat
    \/ ChatPollTick
    \/ ChatPollResponse
    \/ ChatPollFail
    \/ \E ok \in BOOLEAN : ChatPollLoadResponse(ok)
    \/ \E ok \in BOOLEAN : ChatPollListResponse(ok)
    \/ Reload
    \/ MeResponse
    \/ \E ok \in BOOLEAN : CheckListResponse(ok)
    \/ CheckActiveRequestResponse
    \/ CheckActiveRequestFail
    \/ CheckLoadResponse
    \/ CheckLoadFail

SpecChat == Init /\ [][NextChat]_vars

\* -------------------------------------------------------------------- Next
Next ==
    \/ \E q \in QuestionInputs : TypeQuestion(q)
    \/ SubmitQuestion
    \/ \E shiftKey \in BOOLEAN : HandleEnterKey(shiftKey)
    \/ SubmitResponse
    \/ SubmitFail
    \/ SubmitFail401
    \/ \E t \in timers : Tick(t)
    \/ \E i \in 1..Len(pollPending) :
          \E debate \in Resources(pollPending[i]) : PollResponse(i, debate)
    \/ \E i \in 1..Len(pollPending) : PollFail(i)
    \/ \E i \in 1..Len(pollPending) : PollFail401(i)
    \/ ResetChat
    \/ \E role \in {"role0", "role1"} : LoginResponse(role)
    \/ Logout

Spec == Init /\ [][Next]_vars

\* one debate polled without failure, reset or login: the flows that feed
\* updateDebateDisplay
NextReconcile ==
    \/ \E q \in QuestionInputs : TypeQuestion(q)
    \/ SubmitQuestion
    \/ SubmitResponse
    \/ \E t \in timers : Tick(t)
    \/ \E i \in 1..Len(pollPending) :
          \E debate \in Resources(pollPending[i]) : PollResponse(i, debate)

SpecReconcile == Init /\ [][NextReconcile]_vars

\* the scheduling the browser guarantees: a live interval timer keeps firing,
\* and every HTTP request is settled, by a response or by a rejection
TimerFires(t) == t \in timers /\ Tick(t)

\* a fetch of the debate d is settled
PollSettles(d) ==
    \E i \in 1..Len(pollPending) :
        /\ pollPending[i] = d
        /\ \/ \E debate \in Resources(d) : PollResponse(i, debate)
           \/ PollFail(i)
           \/ PollFail401(i)

SubmitSettles == SubmitResponse \/ SubmitFail \/ SubmitFail401

SpecFair ==
    /\ Spec
    /\ \A d \in 1..MaxDebates : WF_vars(TimerFires(d)) /\ WF_vars(PollSettles(d))
    /\ WF_vars(SubmitSettles)

\* the chat with every way of AuthModule to set and drop the user
NextAuth ==
    \/ \E q \in QuestionInputs : TypeQuestion(q)
    \/ SubmitQuestion
    \/ SubmitResponse
    \/ SubmitFail401
    \/ \E t \in timers : Tick(t)
    \/ \E i \in 1..Len(pollPending) :
          \E debate \in Resources(pollPending[i]) : PollResponse(i, debate)
    \/ \E i \in 1..Len(pollPending) : PollFail401(i)
    \/ ResetChat
    \/ \E role \in {"role0", "role1"} : LoginResponse(role)
    \/ \E role \in {"role0", "role1"} : SignupResponse(role)
    \/ \E role \in {"role0", "role1"} : CheckAuthResponse(role)
    \/ CheckAuthFail
    \/ Logout

SpecAuth == Init /\ [][NextAuth]_vars

\* ---------------------------------------------------- a debate of two rounds
Pour1   == [position |-> "pour", round |-> 1]
Contre1 == [position |-> "contre", round |-> 1]
Pour2   == [position |-> "pour", round |-> 2]

\* response.data of the fetches of a debate that runs pour 1, then contre 1
\* and pour 2, then completes with its summary.  The timeline msgs tells which
\* fetch is answered: the first until pour 1 is shown, the second until pour 2
\* is shown, then the last.  debate_rounds lists the new rounds or all rounds
\* so far.
ScenarioAnswers(debateId, msgs) ==
    IF ~hasMessage(msgs, MessageKey(Pour1))
    THEN {[id |-> debateId, status |-> "processing", debate_rounds |-> <<Pour1>>,
           summary |-> FALSE]}
    ELSE IF ~hasMessage(msgs, MessageKey(Pour2))
    THEN {[id |-> debateId, status |-> "processing", debate_rounds |-> r,
           summary |-> FALSE] : r \in {<<Contre1, Pour2>>, <<Pour1, Contre1, Pour2>>}}
    ELSE {[id |-> debateId, status |-> "completed", debate_rounds |-> r,
           summary |-> TRUE] : r \in {<<>>, <<Pour1, Contre1, Pour2>>}}

\* a tick whose predecessor has been answered (the period of 2000 ms outlasts
\* the request)
ScenarioTick(t) ==
    /\ pollPending = <<>>
    /\ Tick(t)

ScenarioPollResponse(i) ==
    \E debate \in ScenarioAnswers(pollPending[i], messages) : pollResponse(i, debate)

\* login before a debate is started
ScenarioLogin(role) ==
    /\ ~debateGenerated
    /\ LoginResponse(role)

\* "Nouveau" while no request is awaiting its response
ScenarioReset ==
    /\ InFlight = 0
    /\ ResetChat

NextScenario ==
    \/ \E q \in QuestionInputs : TypeQuestion(q)
    \/ SubmitQuestion
    \/ SubmitResponse
    \/ SubmitFail
    \/ \E role \in {"role0", "role1"} : ScenarioLogin(role)
    \/ \E t \in timers : ScenarioTick(t)
    \/ \E i \in 1..Len(pollPending) : ScenarioPollResponse(i)
    \/ ScenarioReset

SpecScenario == Init /\ [][NextScenario]_vars

\* ================================================================= claims
IsPrefix(s, t) == Len(s) <= Len(t) /\ SubSeq(t, 1, Len(s)) = s

\* the fetch pollPending[i] is the one whose response this step handles
Resolves(i) == i \in 1..Len(pollPending) /\ pollPending' = RemoveAt(pollPending, i)

\* C1: once resetChat has run while a poll fetch was pending, the response of
\* that fetch appends nothing to the timeline and leaves currentDebate alone.
\* A pending fetch whose timer is cleared while currentDebate is null is such a
\* fetch: only resetChat sets currentDebate to null, and a timer is cleared only
\* while it is the one pollInterval holds.
C1_NoZombieAfterReset ==
    [][\A i \in 1..Len(pollPending) :
          (currentDebate = NoDebate /\ pollPending[i] \notin timers /\ Resolves(i))
              => (messages' = messages /\ currentDebate' = currentDebate)]_vars

\* C2: at most one GET /debate/{id} is in flight for a debate at any moment.
C2_SequentialTicks ==
    \A d \in 1..MaxDebates :
        Cardinality({i \in 1..Len(pollPending) : pollPending[i] = d}) <= 1

\* the dedupe key of a unit: the round key, or the kind for the singleton kinds
DedupeKey(m) ==
    IF m.messageKey # NoKey THEN m.messageKey
    ELSE IF m.type \in {"summary", "user", "export"} THEN <<m.type>>
    ELSE NoKey

\* C3: no two units of the timeline share a dedupe key (round key, summary,
\* user question, completion notice).
C3_UniqueDedupeKeys ==
    \A i, j \in 1..Len(messages) :
        (i < j /\ DedupeKey(messages[i]) # NoKey)
            => DedupeKey(messages[i]) # DedupeKey(messages[j])

\* C4: reconciling a fetched resource a second time appends nothing: for every
\* resource, updateDebateDisplay applied twice gives the timeline of applying
\* it once.
C4_ReconcileIdempotent ==
    \A debate \in Resources(1) :
        updateDebateDisplay(updateDebateDisplay(messages, debate), debate)
            = updateDebateDisplay(messages, debate)

\* C4 witness: rounds [{pour,1},{contre,1}] have been reconciled, the timeline
\* holds exactly these two round units and reconciling them again adds none.
C4_Witness ==
    /\ currentDebate.shape = "fetch"
    /\ messages = <<UserMessage, RoundMessage(Pour1), RoundMessage(Contre1)>>
    /\ updateDebateDisplay(messages,
          [id |-> 1, status |-> "processing", debate_rounds |-> <<Pour1, Contre1>>,
           summary |-> FALSE]) = messages

\* the rounds of a resource that a tick must append to msgs, in the order the
\* resource lists them: those whose key the timeline lacks, each once
NewRoundUnits(rounds, msgs) ==
    LET fresh == {i \in 1..Len(rounds) :
                     /\ ~hasMessage(msgs, MessageKey(rounds[i]))
                     /\ \A j \in 1..(i - 1) : rounds[j] # rounds[i]}
        nth(k) == CHOOSE i \in fresh : Cardinality({j \in fresh : j < i}) = k - 1
    IN  [k \in 1..Cardinality(fresh) |-> RoundMessage(rounds[nth(k)])]

\* the timelines resetChat, alone or through logout and the 401 interceptor,
\* leaves behind
AfterReset ==
    /\ messages \in {<<>>, <<WelcomeMessage>>, <<PendingMessage>>, <<SubmitErrorMessage>>}
    /\ currentDebate = NoDebate
    /\ pollInterval = 0

\* C5: between resets every step leaves the timeline as a prefix of the new
\* timeline, and a tick appends its new round units in the order the resource
\* lists them.
C5_AppendOnlyStableOrder ==
    /\ [][IsPrefix(messages, messages') \/ AfterReset']_vars
    /\ [](\A rounds \in RoundLists :
            forEachRound(messages, rounds, 1) = messages \o NewRoundUnits(rounds, messages))

\* C5 witness: contre 1 was appended behind the pour 1 unit already there.
C5_Witness ==
    /\ currentDebate.shape = "fetch"
    /\ pollInterval # 0
    /\ messages = <<UserMessage, RoundMessage(Pour1), RoundMessage(Contre1)>>

\* C6: once a fetch has returned status=completed for a debate, no poll timer
\* of that debate is left to tick.
C6_NoTickAfterCompleted ==
    currentDebate.status = "completed" => currentDebate.id \notin timers

ValidLength(q) ==
    /\ TrimmedLength(q) >= MIN_QUESTION_LENGTH
    /\ TrimmedLength(q) <= MAX_QUESTION_LENGTH

\* C7: while the question in the input is shorter than MIN_QUESTION_LENGTH or
\* longer than MAX_QUESTION_LENGTH (lengths of the trimmed question, as the
\* code measures them), no step issues a POST /debate/submit, appends a user
\* unit or turns isProcessing on.
C7_InvalidQuestionRejected ==
    [][~ValidLength(question) =>
          /\ submitPending' <= submitPending
          /\ messages' # Append(messages, UserMessage)
          /\ (isProcessing' => isProcessing)]_vars

\* C7 witness: a question of MAX_QUESTION_LENGTH + 1 characters is in the
\* input of an idle chat, where only its length can reject it.
C7_Witness ==
    /\ TrimmedLength(question) = MAX_QUESTION_LENGTH + 1
    /\ ~isProcessing
    /\ submitPending = 0
    /\ messages = <<WelcomeMessage>>

\* C8: submitQuestion accepts every valid question of an idle chat (within the
\* bounds of the model); an accepted submitQuestion appends exactly one user unit at once,
\* before the debate id is known (currentDebate untouched, the POST pending);
\* the response of the POST installs exactly one session with
\* status=processing and appends nothing.
C8_ValidSubmit ==
  /\ [](ValidLength(question) /\ ~isProcessing
            /\ Len(messages) < MaxMessages /\ InFlight < MaxInFlight
        => ENABLED (SubmitQuestion /\ submitPending' = submitPending + 1))
  /\
    [][/\ (submitPending' > submitPending =>
              /\ ValidLength(question)
              /\ submitPending' = submitPending + 1
              /\ messages' = Append(messages, UserMessage)
              /\ currentDebate' = currentDebate
              /\ isProcessing')
       /\ (nextId' # nextId =>
              /\ nextId' = nextId + 1
              /\ submitPending' = submitPending - 1
              /\ currentDebate'.id = nextId
              /\ currentDebate'.status = "processing"
              /\ messages' = messages)]_vars

\* C8 witness: the user unit is on the timeline, the POST has been answered
\* and the session is installed with status=processing.
C8_Witness ==
    /\ messages = <<WelcomeMessage, UserMessage>>
    /\ currentDebate = NewDebate(1)
    /\ submitPending = 0
    /\ isProcessing

\* C9: no submitQuestion is accepted while a submit POST is pending or a
\* session is being polled.
C9_OneSubmissionInFlight ==
    [][submitPending' > submitPending => (submitPending = 0 /\ pollInterval = 0)]_vars

\* C10: when the POST fails, no session is created, no poller is started, no
\* unit is added to the timeline and isProcessing and isTyping are off.
C10_SubmitFailureLeavesState ==
    [][(submitPending' < submitPending /\ nextId' = nextId) =>
          /\ currentDebate' = currentDebate
          /\ pollInterval' = pollInterval
          /\ Len(messages') <= Len(messages)
          /\ ~isProcessing'
          /\ ~isTyping']_vars
\* the step handles the rejection of a poll fetch (network error, a status
\* other than 2xx, 401 included)
PollFails == \E i \in 1..Len(pollPending) : PollFail(i) \/ PollFail401(i)

\* C11: when a poll fetch fails, the session is marked status=error and an
\* error unit is appended to the timeline.
C11_PollFailureMarksError ==
    [][PollFails =>
          /\ currentDebate'.status = "error"
          /\ Len(messages') = Len(messages) + 1
          /\ IsPrefix(messages, messages')]_vars

\* C12: after a poll fetch of a session has failed, the timer of that session
\* is cleared, so that no tick issues a further fetch for it (a timer handle is
\* created once per session and never comes back once cleared).
C12_NoFetchAfterPollFailure ==
    [][\A i \in 1..Len(pollPending) :
          (PollFail(i) \/ PollFail401(i)) => pollPending[i] \notin timers']_vars

\* C13: once currentDebate.status is completed or error, no step changes the
\* status of that session.
C13_StatusMonotonic ==
    [][(IsTerminal(currentDebate.status) /\ currentDebate'.id = currentDebate.id)
          => currentDebate'.status = currentDebate.status]_vars

SummaryCount(msgs) == Cardinality({k \in 1..Len(msgs) : msgs[k].type = "summary"})

\* C14: the timeline holds at most one summary unit, and a step appends a
\* summary unit only when the resource it fetched has status=completed.
C14_SummaryOnlyWhenCompleted ==
    /\ [](SummaryCount(messages) <= 1)
    /\ [][SummaryCount(messages') > SummaryCount(messages)
             => currentDebate'.status = "completed"]_vars
\* the units a step has appended
NewUnits == SubSeq(messages', Len(messages) + 1, Len(messages'))

\* the timeline after, left by the try block of a tick that fetched debate on
\* the timeline msgs: behind msgs come round and summary units only, then the
\* notice as the last unit exactly when the status is completed; every round
\* of the resource and its summary are on the timeline
TickOutcome(msgs, after, debate) ==
    LET new == SubSeq(after, Len(msgs) + 1, Len(after))
        notices == {k \in 1..Len(new) : new[k].type = "export"}
    IN  /\ IsPrefix(msgs, after)
        /\ notices = IF debate.status = "completed" THEN {Len(new)} ELSE {}
        /\ \A k \in 1..Len(new) \ notices : new[k].type \in Positions \cup {"summary"}
        /\ \A k \in 1..Len(debate.debate_rounds) :
               hasMessage(after, MessageKey(debate.debate_rounds[k]))
        /\ debate.summary => hasMessageType(after, "summary")

\* the step handles the response of a poll fetch and changes the session or
\* the timeline (the steps that handle a rejection change neither, or discard
\* the session)
TickApplied ==
    /\ \E i \in 1..Len(pollPending) : Resolves(i)
    /\ currentDebate'.shape = "fetch"
    /\ (messages' # messages \/ currentDebate' # currentDebate)

\* C15: the tick that observes a terminal status appends its round and summary
\* units and stops the poller, and appends the completion notice behind them
\* if and only if the status is completed; status=error gets no notice.
C15_FinalTickThenNotice ==
    /\ [](\A debate \in Resources(1) :
             TickOutcome(messages, pollTry(messages, debate), debate))
    /\ [][TickApplied =>
             /\ IsPrefix(messages, messages')
             /\ \A k \in 1..Len(NewUnits) :
                    NewUnits[k].type = "export" =>
                        k = Len(NewUnits) /\ currentDebate'.status = "completed"
             /\ currentDebate'.status = "completed" =>
                    /\ Len(NewUnits) > 0
                    /\ NewUnits[Len(NewUnits)].type = "export"
             /\ currentDebate'.status \in {"completed", "error"} =>
                    /\ pollInterval' = 0
                    /\ pollInterval \notin timers']_vars

\* C15 witness: the final tick brought the summary and status=completed; the
\* notice stands behind the summary and the poller is stopped.
C15_Witness ==
    /\ currentDebate.shape = "fetch"
    /\ currentDebate.status = "completed"
    /\ messages = <<UserMessage, SummaryMessage, ExportMessage>>
    /\ pollInterval = 0
    /\ timers = {}

\* C16: the step that handles the outcome of a poll fetch, failures and HTTP
\* error responses included, never clears the timeline or discards the session.
C16_PollFailureKeepsSession ==
    [][\A i \in 1..Len(pollPending) :
          Resolves(i) =>
              /\ IsPrefix(messages, messages')
              /\ (currentDebate # NoDebate => currentDebate' # NoDebate)]_vars

\* C17: when submitQuestion is accepted, the timeline holds no round, summary
\* or completion unit (these are units of an earlier session).
C17_FreshTimelineAtSubmit ==
    [][submitPending' > submitPending =>
          \A k \in 1..Len(messages) :
              messages[k].type \notin Positions \cup {"summary", "export"}]_vars

\* the timeline of the two-round debate, from the user unit on
ScenarioUnits ==
    <<UserMessage, RoundMessage(Pour1), RoundMessage(Contre1), RoundMessage(Pour2),
      SummaryMessage, ExportMessage>>

\* the units of msgs from its last user unit on
FromLastUser(msgs) ==
    LET users == {k \in 1..Len(msgs) : msgs[k].type = "user"}
        last  == CHOOSE k \in users : \A j \in users : j <= k
    IN  IF users = {} THEN <<>> ELSE SubSeq(msgs, last, Len(msgs))

\* C18: a valid question is submitted, the first fetch returns pour 1, the
\* second contre 1 and pour 2, the third status=completed with a summary: the
\* timeline then ends with user, pour1, contre1, pour2, summary and one
\* completion notice in this order, no other round, summary or notice unit is
\* on it, and the poller is stopped.  On the way the units behind the question
\* are an initial part of this sequence.
C18_Scenario ==
    /\ currentDebate # NoDebate => IsPrefix(FromLastUser(messages), ScenarioUnits)
    /\ currentDebate.status = "completed" =>
          /\ FromLastUser(messages) = ScenarioUnits
          /\ \A k \in 1..(Len(messages) - Len(ScenarioUnits)) :
                 messages[k].type \in {"assistant", "user"}
          /\ pollInterval = 0
          /\ timers = {}
          /\ pollPending = <<>>
          /\ ~isProcessing

\* C18 witness: the third fetch has been handled.
C18_Witness ==
    /\ currentDebate.status = "completed"
    /\ messages = ScenarioUnits
    /\ pollInterval = 0

\* C19: addMessage leaves the timeline unchanged (it fails) when the unit it is
\* given carries a messageKey that a unit of the timeline already carries.
C19_AppendRejectsDuplicateKey ==
    \A k \in 1..Len(messages) :
        messages[k].messageKey # NoKey => addMessage(messages, messages[k]) = messages

\* the step handles the response of the poll fetch pollPending[i]
Answers(i) == Resolves(i) /\ ~PollFail(i) /\ ~PollFail401(i)

\* C20: a fetched resource whose status is neither completed nor error leaves
\* the poller running and isProcessing as it is; a resource whose status is
\* completed or error stops the poller and turns isProcessing off.
C20_UnknownStatusTransient ==
    [][\A i \in 1..Len(pollPending) :
          Answers(i) =>
              IF currentDebate'.status \in {"completed", "error"}
              THEN /\ pollInterval' = 0
                   /\ pollInterval \notin timers'
                   /\ ~isProcessing'
              ELSE /\ timers' = timers
                   /\ pollInterval' = pollInterval
                   /\ isProcessing' = isProcessing
                   /\ isTyping' = isTyping]_vars

\* C20 witness: a resource without a recognised status has been fetched and the
\* poller of the session is still running.
C20_Witness ==
    /\ currentDebate.shape = "fetch"
    /\ currentDebate.status = "unknown"
    /\ pollInterval = currentDebate.id
    /\ pollInterval \in timers
    /\ isProcessing
    /\ pollPending = <<>>

\* a fetch of the session d is pending, or a timer of d is left to issue one
Polled(d) == d \in timers \/ \E i \in 1..Len(pollPending) : pollPending[i] = d

\* C21: once a poll fetch of a session has been answered with status completed
\* or error, the poller of that session eventually stops: no fetch of the
\* session is pending and no timer is left to issue one.
C21_PollerEventuallyStops ==
    \A d \in 1..MaxDebates :
        (currentDebate.id = d /\ currentDebate.shape = "fetch"
            /\ IsTerminal(currentDebate.status)) ~> ~Polled(d)

\* C26: an active poller (pollInterval not null) implies that isProcessing is
\* true and that currentDebate is the session being polled; a POST answered
\* after resetChat installs no session and starts no poller.
C26_ActivePollerIsProcessing ==
    pollInterval # 0 => (isProcessing /\ currentDebate.id = pollInterval)

\* C27: at most one polling timer exists, and it is the one pollInterval
\* holds, so that stopPolling can clear it.
C27_SingleTimer ==
    /\ Cardinality(timers) <= 1
    /\ \A t \in timers : t = pollInterval

\* C28: isTyping = true implies isProcessing = true.
C28_TypingImpliesProcessing == isTyping => isProcessing

\* C29: once the completion notice has been appended for the session that
\* currentDebate holds as fetched, exportToPDF issues the export request
\* instead of the warning.
C29_ExportAvailable ==
    (hasMessageType(messages, "export") /\ currentDebate.shape = "fetch"
        /\ currentDebate.status = "completed")
            => exportToPDF(currentDebate).request = "export-pdf"

WelcomeCount(msgs) ==
    Cardinality({k \in 1..Len(msgs) :
                    msgs[k].content \in {"WELCOME_MESSAGE", "PENDING_MESSAGE"}})

SafePlaces(t) ==
    LET RECURSIVE from(_)
        from(k) == IF k > Len(t) THEN <<>>
                   ELSE IF t[k] = "script" THEN from(k + 1)
                   ELSE <<k>> \o from(k + 1)
    IN  from(1)

\* C22: what is displayed has passed renderMarkdown: it holds no script element,
\* no element outside the allowlist and no attribute; and renderMarkdown keeps
\* the words of every piece but the scripts, in order.
C22_Sanitized ==
    /\ \A k \in 1..Len(html) :
           /\ html[k].tag \in ALLOWED_TAGS \cup {"#text"}
           /\ html[k].tag # "script"
           /\ html[k].attrs = {}
    /\ LET out == renderMarkdown(text)
       IN  [k \in 1..Len(out) |-> out[k].words] = SafePlaces(text)

\* C22 witness: a script between two safe pieces has been rendered; the two
\* safe pieces are displayed.
C22_Witness ==
    /\ text = <<"plain", "script", "bold">>
    /\ html = <<Node("#text", {}, 1), Node("strong", {}, 3)>>

\* C25: during one mount of VerifyEmail, however often the effect runs, at most
\* one GET /api/auth/verify-email is issued, the status is one of loading,
\* success and error, and once it has left loading it never changes.
C25_VerifiedOnce ==
    /\ [](issued <= 1 /\ verifyStatus \in {"loading", "success", "error"})
    /\ [][mount' = mount /\ verifyStatus # "loading" => verifyStatus' = verifyStatus]_vars

\* C25 witness: the effect has run twice in this mount (StrictMode), one GET
\* was issued and has resolved, and the status is success.
C25_Witness ==
    /\ effectRuns >= 2
    /\ issued = 1
    /\ verifyPending = <<>>
    /\ verifyStatus = "success"
    /\ email # ""

\* the state of useChat while a request is in flight for chat c, polling running
InFlightState(c) ==
    /\ hasActiveRequest
    /\ isSending
    /\ sendingChatId = c
    /\ currentChatId = c
    /\ activeChatRequest = c
    /\ Polling

\* the idle state of useChat, the marker removed
IdleState ==
    /\ activeChatRequest = 0
    /\ ~hasActiveRequest
    /\ ~isSending
    /\ sendingChatId = 0

\* C23: when the page loads with the marker activeChatRequest set for chat c,
\* the answer to the GET of checkActiveRequest re-enters the in-flight state
\* exactly if the last message of c is not an assistant message; in every other
\* case (last message of the assistant, no message, the GET rejected) the marker
\* is removed and the state is idle; and when checkActiveRequest ends, the marker
\* is not set while hasActiveRequest is false.
C23_ResumeOrIdle ==
    [][/\ CheckActiveRequestResponse =>
            LET messagesData == store[checkOp.chat]
            IN IF messagesData # <<>> /\ lastMessage(messagesData) # "assistant"
                 THEN InFlightState(checkOp.chat)'
                 ELSE IdleState'
       /\ CheckActiveRequestFail => IdleState'
       /\ (checkOp.stage \in {"check", "load"} /\ checkOp'.stage = "idle")
            => (activeChatRequest' # 0 => hasActiveRequest')]_vars

\* C30: the messages displayed all belong to currentChatId, and a step that is
\* not the user's (a response that resolves, a timer) never moves currentChatId
\* away from the chat the user selected last.
C30_MessagesOfCurrentChat ==
    /\ [](\A k \in 1..Len(chatMessages) : chatMessages[k].chat = currentChatId)
    /\ [][(selected' = selected /\ selected # 0 /\ currentChatId = selected)
            => currentChatId' = selected]_vars
=============================================================================
